---- MODULE Spec2Model ----
(***************************************************************************)
(* Model of MAIN.cjs: the frame-wise feature aggregation and scoring       *)
(* pipeline of measureAudioCharacteristics (lines 1-309).                  *)
(*                                                                         *)
(* JavaScript numbers are modelled as exact rationals [n, d] with d > 0,   *)
(* plus NaN (0/0) and undefined (an out-of-bounds array read).  The calls  *)
(* into essentia.js and wav-decoder are external: their results are a      *)
(* function of the audio content (a level per frame) and they may throw.   *)
(***************************************************************************)
EXTENDS Integers, Sequences, FiniteSets

\* ------------------------------------------------------------ bounds
\* Buffer lengths range over k * hopSize + d, k <= MaxHops, d in -1..1.
MaxHops == 3
\* Largest content level of a frame (0 is digital silence).
MaxLevel == 1
\* Number of feature computations (DynamicComplexity included) that may
\* throw during one run.
MaxFailures == 1
\* Longest spectrum array handed to the band-energy computation.
MaxSpectrumLen == 10
\* Longest series and largest entry given to calculateStats on its own.
MaxStatLen == 11
MaxStatVal == 1
\* createBar on its own is given the scores -MaxBarTenths/10 .. (1000 + MaxBarTenths)/10.
MaxBarTenths == 100

\* ------------------------------------------------------------ program constants
frameSize == 4096
hopSize == 2048

\* ------------------------------------------------------------ JavaScript numbers
RECURSIVE GCD(_, _)
GCD(a, b) == IF b = 0 THEN a ELSE GCD(b, a % b)

Abs(x) == IF x < 0 THEN -x ELSE x

\* The rational n/d in lowest terms (d > 0).
Rat(n, d) ==
  LET g == GCD(Abs(n), d) IN [n |-> n \div g, d |-> d \div g]

Num(k) == [n |-> k, d |-> 1]
NaN == [n |-> 0, d |-> 0]
undefined == [n |-> 1, d |-> 0]
IsNumber(x) == x.d > 0

\* a + b; NaN (and undefined, which converts to NaN) is absorbing.
Add(a, b) ==
  IF IsNumber(a) /\ IsNumber(b) THEN Rat(a.n * b.d + b.n * a.d, a.d * b.d) ELSE NaN

Sub(a, b) ==
  IF IsNumber(a) /\ IsNumber(b) THEN Rat(a.n * b.d - b.n * a.d, a.d * b.d) ELSE NaN

Mul(a, b) ==
  IF IsNumber(a) /\ IsNumber(b) THEN Rat(a.n * b.n, a.d * b.d) ELSE NaN

\* a / b for b >= 0.  The only division by zero in the program has a zero
\* dividend (a reduce over an empty slice), which is NaN.
Div(a, b) ==
  CASE ~(IsNumber(a) /\ IsNumber(b)) -> NaN
    [] b.n > 0 -> Rat(a.n * b.d, a.d * b.n)
    [] b.n = 0 /\ a.n = 0 -> NaN

\* a < b; every comparison with NaN is false.
Less(a, b) == IsNumber(a) /\ IsNumber(b) /\ a.n * b.d < b.n * a.d

\* A cap that is left out: the capped value passes through.
MathMinUncapped(a, b) == b

\* Math.min / Math.max: NaN if either argument is NaN.
MathMin(a, b) ==
  IF ~(IsNumber(a) /\ IsNumber(b)) THEN NaN ELSE IF Less(b, a) THEN b ELSE a

MathMax(a, b) ==
  IF ~(IsNumber(a) /\ IsNumber(b)) THEN NaN ELSE IF Less(a, b) THEN b ELSE a

\* Math.floor of a number.
MathFloor(x) == x.n \div x.d

\* Math.round: the nearest integer, ties towards +Infinity.
MathRound(x) == (2 * x.n + x.d) \div (2 * x.d)

\* Number.prototype.toFixed(0): the nearest integer, ties away from zero.
toFixed0(x) ==
  CASE ~IsNumber(x) -> "NaN"
    [] IsNumber(x) /\ x.n >= 0 -> (2 * x.n + x.d) \div (2 * x.d)
    [] IsNumber(x) /\ x.n < 0 -> -((2 * (-x.n) + x.d) \div (2 * x.d))

\* ------------------------------------------------------------ calculateStats
\* arr.reduce((a, b) => a + b, 0)
RECURSIVE SumSeq(_)
SumSeq(arr) == IF Len(arr) = 0 THEN Num(0) ELSE Add(arr[1], SumSeq(Tail(arr)))

\* [...arr].sort((a, b) => a - b): ascending; x goes before the first entry
\* it is smaller than.
RECURSIVE Insert(_, _)
Insert(x, sorted) ==
  IF Len(sorted) = 0 THEN <<x>>
  ELSE IF Less(x, sorted[1]) THEN <<x>> \o sorted
  ELSE <<sorted[1]>> \o Insert(x, Tail(sorted))

RECURSIVE SortAscending(_)
SortAscending(arr) ==
  IF Len(arr) = 0 THEN <<>> ELSE Insert(arr[1], SortAscending(Tail(arr)))

\* sorted[k] with a 0-based index: undefined outside the array.
At(sorted, k) == IF k >= 0 /\ k < Len(sorted) THEN sorted[k + 1] ELSE undefined

\* A percentile index one rank too high, as Math.ceil would give.
percentileIndexCeil(length) == (length * 9 + 9) \div 10

\* Math.floor(sorted.length * 0.9).  The double nearest 0.9 exceeds 0.9 by
\* 2.2e-17, too little to carry length * 0.9 over the next integer for any
\* array length, so this is the floor of 9 * length / 10.
percentileIndex(length) == (length * 9) \div 10

calculateStats(arr) ==
  IF Len(arr) = 0
    THEN [mean |-> Num(0), std |-> Num(0), median |-> Num(0), percentile90 |-> Num(0)]
    ELSE [mean |-> Div(SumSeq(arr), Num(Len(arr))),
          percentile90 |-> At(SortAscending(arr), percentileIndex(Len(arr)))]

\* ------------------------------------------------------------ createBar
barWidth == 20

\* String.prototype.repeat for a count >= 0.
Repeat(c, count) == [k \in 1 .. count |-> c]

\* createBar(score): the bar, or the RangeError String.prototype.repeat
\* throws for a negative count.  A NaN count repeats zero times.
createBar(score) ==
  IF ~IsNumber(score) THEN [threw |-> FALSE, value |-> <<>>]
  ELSE LET filled == MathRound(Div(score, Num(5)))
           empty == barWidth - filled
       IN IF filled < 0 \/ empty < 0
            THEN [threw |-> TRUE, value |-> <<>>]
            ELSE [threw |-> FALSE, value |-> Repeat("#", filled) \o Repeat("-", empty)]

\* ------------------------------------------------------------ inputs
Levels == 0 .. MaxLevel

Lengths == {L \in {k * hopSize + d : k \in 0 .. MaxHops, d \in -1 .. 1} : L >= 0}

SampleRates == {44100}

\* Number of start offsets 0, hopSize, ... at which a whole frame lies in a
\* buffer of the given length; the content of the buffer is one level for
\* each of them.
NumSlots(length) == IF length < frameSize THEN 0 ELSE (length - frameSize) \div hopSize + 1

Files ==
  {[kind |-> k, length |-> 0, content |-> <<>>, sampleRate |-> 0] : k \in {"missing", "malformed"}}
  \cup UNION {{[kind |-> "wav", length |-> L, content |-> c, sampleRate |-> r] :
                 c \in [1 .. NumSlots(L) -> Levels], r \in SampleRates} : L \in Lengths}

\* Lengths of Array.from(spectrum.spectrum): none, too short to have a low
\* band, and with both bands.
SpectrumLengths == {0, 9, MaxSpectrumLen}

\* ------------------------------------------------------------ state
VARIABLES
  file,            \* the input: process.argv[2] and what it names
  spectrumLength,  \* length of the array Array.from makes of a spectrum
  pc,              \* position of the run
  audio,           \* channelData[0] once loaded
  i,               \* the frame loop's offset
  frames,          \* the loop iterations so far: offset, failed computations
  series,          \* the seventeen feature arrays
  failures,        \* feature computations that threw so far
  dcAttempts,      \* times DynamicComplexity was called
  scores,          \* the five scores once computed
  stdout, stderr,  \* console.log / console.error output
  err,             \* the pending rejection
  exitCode,        \* the process's exit status once it ended
  arg, ret         \* argument of a function called on its own, and <<result>>

vars == <<file, spectrumLength, pc, audio, i, frames, series, failures,
          dcAttempts, scores, stdout, stderr, err, exitCode, arg, ret>>

PerFrameSeries ==
  {"hfcValues", "spectralCentroids", "spectralComplexities", "dissonances",
   "pitchSaliences", "inharmonicities", "spectralEntropies", "spectralRolloffs",
   "loudnesses", "zeroCrossingRates", "spectralFluxes", "lowFreqEnergies",
   "highFreqEnergies", "spectralFlatnesses", "spectralPeakCounts", "frameSilences"}

SeriesNames == PerFrameSeries \cup {"dynamicComplexities"}

NoAudio == [length |-> 0, content |-> <<>>, sampleRate |-> 0, loaded |-> FALSE]

NoScores == <<>>

\* ------------------------------------------------------------ essentia.js
\* The calls made outside any try block, for each frame.
TransformCalls == {"arrayToVector", "Windowing", "Spectrum"}

\* The try blocks of the loop body, by the algorithm each one calls.
TryBlocks ==
  {"HFC", "Centroid", "SpectralComplexity", "Dissonance", "PitchSalience",
   "Inharmonicity", "Entropy", "RollOff", "Loudness", "ZeroCrossingRate", "Flux",
   "BandEnergy", "Flatness", "SpectralPeaks", "Energy"}

\* The array each try block pushes to (BandEnergy pushes to two).
BlockOf(s) ==
  CASE s = "hfcValues" -> "HFC"
    [] s = "spectralCentroids" -> "Centroid"
    [] s = "spectralComplexities" -> "SpectralComplexity"
    [] s = "dissonances" -> "Dissonance"
    [] s = "pitchSaliences" -> "PitchSalience"
    [] s = "inharmonicities" -> "Inharmonicity"
    [] s = "spectralEntropies" -> "Entropy"
    [] s = "spectralRolloffs" -> "RollOff"
    [] s = "loudnesses" -> "Loudness"
    [] s = "zeroCrossingRates" -> "ZeroCrossingRate"
    [] s = "spectralFluxes" -> "Flux"
    [] s = "lowFreqEnergies" -> "BandEnergy"
    [] s = "highFreqEnergies" -> "BandEnergy"
    [] s = "spectralFlatnesses" -> "Flatness"
    [] s = "spectralPeakCounts" -> "SpectralPeaks"
    [] s = "frameSilences" -> "Energy"
    [] s = "dynamicComplexities" -> "DynamicComplexity"

\* What an algorithm returns for a frame of the given level: zero for
\* silence, and per level a step that the scoring formulas map to about 60
\* of 100 (HFC and the peak count: beyond the 100 they are capped at).
essentia(alg, level) ==
  CASE alg = "HFC" -> Num(40000 * level)
    [] alg = "Centroid" -> Rat(level, 4)
    [] alg = "SpectralComplexity" -> Num(12 * level)
    [] alg = "Dissonance" -> Rat(3 * level, 10)
    [] alg = "PitchSalience" -> Rat(3 * level, 5)
    [] alg = "Inharmonicity" -> Rat(level, 25)
    [] alg = "Entropy" -> Num(5 * level)
    [] alg = "RollOff" -> Rat(level, 5)
    [] alg = "Loudness" -> Num(1500 * level)
    [] alg = "ZeroCrossingRate" -> Rat(3 * level, 10)
    [] alg = "Flatness" -> Rat(level, 2)
    [] alg = "SpectralPeaks" -> Num(16 * level)
    [] alg = "Energy" -> Rat(frameSize * level * level, 10000)

\* Flux of the spectra of two frames.
essentiaFlux(prevLevel, level) == Rat(3 * Abs(level - prevLevel), 50)

\* DynamicComplexity of the whole buffer: grows with the spread of its levels.
essentiaDynamicComplexity(content) ==
  IF Len(content) = 0 THEN Num(0)
  ELSE LET ls == {content[k] : k \in 1 .. Len(content)}
           hi == CHOOSE x \in ls : \A y \in ls : y <= x
           lo == CHOOSE x \in ls : \A y \in ls : x <= y
       IN Num(7 * (hi - lo) + 2 * hi)

\* Array.from(spectrum.spectrum): the bins of a frame of the given level.
spectrumArray(level, length) == [k \in 1 .. length |-> IF k <= 3 THEN level ELSE 2 * level]

\* ------------------------------------------------------------ low / high band energy
\* arr.reduce((a, b) => a + b * b, 0)
RECURSIVE SumSquares(_)
SumSquares(arr) == IF Len(arr) = 0 THEN 0 ELSE arr[1] * arr[1] + SumSquares(Tail(arr))

\* arr.slice(from, to) with 0-based bounds, from <= to <= arr.length.
Slice(arr, from, to) == SubSeq(arr, from + 1, to)

splitPoint(spectrum) == MathFloor(Rat(Len(spectrum), 10))

lowEnergy(spectrum) ==
  LET lowFreqs == Slice(spectrum, 0, splitPoint(spectrum))
  IN Div(Num(SumSquares(lowFreqs)), Num(Len(lowFreqs)))

highEnergy(spectrum) ==
  LET highFreqs == Slice(spectrum, splitPoint(spectrum), Len(spectrum))
  IN Div(Num(SumSquares(highFreqs)), Num(Len(highFreqs)))

\* ------------------------------------------------------------ the loop body
\* audio.slice(from, from + frameSize): the level of the frame starting
\* there.  A slice that does not hold frameSize samples (a start before the
\* buffer or less than a frame from its end) is taken as silence.
frameAt(buffer, from) ==
  IF from >= 0 /\ from \div hopSize + 1 <= Len(buffer.content)
    THEN buffer.content[from \div hopSize + 1]
    ELSE 0

\* The value a try block pushes to series s for the frame at offset at.
pushed(s, buffer, at, specLen) ==
  LET level == frameAt(buffer, at)
      spectrum == spectrumArray(level, specLen)
      half == Rat(buffer.sampleRate, 2)
  IN CASE s = "spectralCentroids" -> Mul(essentia("Centroid", level), half)
       [] s = "spectralRolloffs" -> Mul(essentia("RollOff", level), half)
       [] s = "spectralFluxes" -> essentiaFlux(frameAt(buffer, at - hopSize), level)
       [] s = "lowFreqEnergies" -> lowEnergy(spectrum)
       [] s = "highFreqEnergies" -> highEnergy(spectrum)
       [] s = "frameSilences" ->
            IF Less(essentia("Energy", level), Rat(1, 1000)) THEN Num(1) ELSE Num(0)
       [] OTHER -> essentia(BlockOf(s), level)

\* The frames a value is computed from: the frame at the loop's offset, and
\* for the flux also the frame one hop before it.
readFrom(s, at) == IF s = "spectralFluxes" THEN <<at - hopSize, at>> ELSE <<at>>

\* Flux is attempted for every offset, the first included.
tryBlocksAtAlways(at) == TryBlocks

\* The try blocks the loop body enters at an offset: if (i > 0) guards Flux.
tryBlocksAt(at) == IF at > 0 THEN TryBlocks ELSE TryBlocks \ {"Flux"}

\* i < audio.length - frameSize
loopCondition(at, length) == at < length - frameSize

\* arr.unshift(entry) in place of arr.push(entry).
unshift(arr, entry) == <<entry>> \o arr

\* arr.push(entry)
push(arr, entry) == Append(arr, entry)

RECURSIVE SubsetsUpTo(_, _)
SubsetsUpTo(S, k) ==
  IF k <= 0 THEN {{}}
  ELSE LET smaller == SubsetsUpTo(S, k - 1)
       IN smaller \cup {T \cup {x} : T \in smaller, x \in S}

\* ------------------------------------------------------------ scores
Values(entries) == [k \in 1 .. Len(entries) |-> entries[k].val]

\* A dynamic-complexity default of 0 instead of 50.
normalizedDynamicZero(dynamicComplexities) ==
  IF Len(dynamicComplexities) > 0
    THEN MathMin(Num(100), Mul(dynamicComplexities[1], Num(10)))
    ELSE Num(0)

normalizedDynamic(dynamicComplexities) ==
  IF Len(dynamicComplexities) > 0
    THEN MathMin(Num(100), Mul(dynamicComplexities[1], Num(10)))
    ELSE Num(50)

\* Lines 188-279: the five scores from the seventeen arrays.
computeScores(S) ==
  LET stat(s) == calculateStats(Values(S[s]))
      hfcStats == stat("hfcValues")
      centroidStats == stat("spectralCentroids")
      complexityStats == stat("spectralComplexities")
      dissonanceStats == stat("dissonances")
      salienceStats == stat("pitchSaliences")
      inharmonicityStats == stat("inharmonicities")
      entropyStats == stat("spectralEntropies")
      rolloffStats == stat("spectralRolloffs")
      loudnessStats == stat("loudnesses")
      zcrStats == stat("zeroCrossingRates")
      fluxStats == stat("spectralFluxes")
      lowEnergyStats == stat("lowFreqEnergies")
      highEnergyStats == stat("highFreqEnergies")
      flatnessStats == stat("spectralFlatnesses")
      peakCountStats == stat("spectralPeakCounts")
      frameSilences == Values(S["frameSilences"])
      silenceRatio ==
        IF Len(frameSilences) > 0
          THEN Div(SumSeq(frameSilences), Num(Len(frameSilences)))
          ELSE Num(0)
      hundred == Num(100)
      normalizedHFC == MathMin(hundred, Mul(Div(hfcStats.mean, Num(10000)), hundred))
      normalizedCentroid == MathMin(hundred, Mul(Div(centroidStats.mean, Num(10000)), hundred))
      normalizedComplexity == MathMin(hundred, Mul(Div(complexityStats.mean, Num(20)), hundred))
      normalizedDissonance == MathMin(hundred, Mul(dissonanceStats.mean, Num(200)))
      normalizedFlux == MathMin(hundred, Mul(fluxStats.mean, Num(1000)))
      dynamic == normalizedDynamic(Values(S["dynamicComplexities"]))
      aggressivenessScore ==
        Add(Add(Add(Add(Add(Mul(normalizedHFC, Rat(1, 4)),
                            Mul(normalizedCentroid, Rat(1, 5))),
                        Mul(normalizedComplexity, Rat(3, 20))),
                    Mul(normalizedDissonance, Rat(3, 20))),
                Mul(normalizedFlux, Rat(3, 20))),
            Mul(dynamic, Rat(1, 10)))
      normalizedSalience == MathMin(hundred, Mul(salienceStats.mean, hundred))
      normalizedHarmonicity ==
        MathMax(Num(0), Sub(hundred, Mul(inharmonicityStats.mean, Num(1000))))
      normalizedTonalEntropy == MathMax(Num(0), Sub(hundred, Mul(entropyStats.mean, Num(12))))
      tonalityScore ==
        Add(Add(Add(Mul(normalizedSalience, Rat(7, 20)),
                    Mul(normalizedHarmonicity, Rat(7, 20))),
                Mul(normalizedTonalEntropy, Rat(1, 5))),
            Rat(1, 10))
      normalizedRolloff == MathMax(Num(0), Sub(hundred, Div(rolloffStats.mean, hundred)))
      normalizedQuietness ==
        MathMax(Num(0), Sub(hundred, MathMin(hundred, Div(loudnessStats.mean, Num(20)))))
      normalizedSmoothness == MathMax(Num(0), Sub(hundred, Mul(zcrStats.mean, Num(200))))
      peakSoftness ==
        MathMax(Num(0), Sub(hundred, MathMin(hundred, Div(loudnessStats.percentile90, Num(30)))))
      softnessScore ==
        Add(Add(Add(Mul(normalizedRolloff, Rat(1, 4)),
                    Mul(normalizedQuietness, Rat(7, 20))),
                Mul(normalizedSmoothness, Rat(1, 5))),
            Mul(peakSoftness, Rat(1, 5)))
      totalEnergy == Add(lowEnergyStats.mean, highEnergyStats.mean)
      highLowBalance ==
        IF Less(Num(0), totalEnergy)
          THEN MathMin(hundred,
                       MathMax(Num(0), Mul(Div(highEnergyStats.mean, totalEnergy), hundred)))
          ELSE Num(50)
      normalizedFlatness == MathMax(Num(0), Sub(hundred, Mul(flatnessStats.mean, hundred)))
      normalizedPeakCount == MathMin(hundred, Mul(Div(peakCountStats.mean, Num(15)), hundred))
      normalizedActivity == MathMax(Num(0), Sub(hundred, Mul(silenceRatio, hundred)))
      normalizedComplexityDensity ==
        MathMin(hundred, Mul(Div(complexityStats.mean, Num(10)), hundred))
      densityScore ==
        Add(Add(Add(Mul(normalizedPeakCount, Rat(7, 20)),
                    Mul(normalizedActivity, Rat(1, 4))),
                Mul(normalizedComplexityDensity, Rat(1, 4))),
            Mul(normalizedFlatness, Rat(3, 20)))
  IN <<aggressivenessScore, tonalityScore, softnessScore, highLowBalance, densityScore>>

Labels == <<"Aggressiveness", "Tonality", "Softness", "High-Low Bal", "Density">>

\* One output line: label, bar and rounded percentage.
line(k, S) ==
  [label |-> Labels[k], bar |-> createBar(S[k]).value, pct |-> toFixed0(S[k])]

\* The lines console.log prints before a createBar call throws, if one does.
printed(S) ==
  LET threw == {k \in 1 .. Len(S) : createBar(S[k]).threw}
      stop == IF threw = {} THEN Len(S) + 1 ELSE CHOOSE k \in threw : \A j \in threw : k <= j
  IN [k \in 1 .. stop - 1 |-> line(k, S)]

\* ------------------------------------------------------------ the run
Idle == "idle"

EmptySeries == [s \in SeriesNames |-> <<>>]

\* The state before measureAudioCharacteristics(filepath) starts, lines 26-42
\* included.
MainInit ==
  /\ file \in Files
  /\ spectrumLength \in SpectrumLengths
  /\ pc = "load"
  /\ audio = NoAudio
  /\ i = 0
  /\ frames = <<>>
  /\ series = EmptySeries
  /\ failures = 0
  /\ dcAttempts = 0
  /\ scores = NoScores
  /\ stdout = <<>>
  /\ stderr = <<>>
  /\ err = "none"
  /\ exitCode = "running"

Init == MainInit /\ arg = <<>> /\ ret = <<>>

\* loadWav, line 20: readFileSync throws for a missing file, decode rejects
\* a malformed one; otherwise channel 0 and the sample rate come back.
loadWav ==
  /\ pc = "load"
  /\ IF file.kind = "wav"
       THEN /\ audio' = [length |-> file.length, content |-> file.content,
                         sampleRate |-> file.sampleRate, loaded |-> TRUE]
            /\ pc' = "loop"
            /\ err' = err
       ELSE /\ audio' = audio
            /\ pc' = "rejected"
            /\ err' = IF file.kind = "missing" THEN "ENOENT" ELSE "decode"
  /\ i' = 0
  /\ UNCHANGED <<file, spectrumLength, frames, series, failures, dcAttempts,
                 scores, stdout, stderr, exitCode, arg, ret>>

\* One iteration of the frame loop, lines 44-171.
Frame ==
  /\ pc = "loop"
  /\ loopCondition(i, audio.length)
  /\ \/ \* arrayToVector, Windowing or Spectrum throws: nothing catches it here
        \E call \in TransformCalls :
          /\ frames' = Append(frames, [at |-> i, failed |-> {}, aborted |-> TRUE])
          /\ pc' = "rejected"
          /\ err' = call
          /\ UNCHANGED <<i, series, failures>>
     \/ \* the try blocks, each swallowing what it throws
        \E failed \in SubsetsUpTo(tryBlocksAt(i), MaxFailures - failures) :
          /\ series' =
               [s \in SeriesNames |->
                  IF BlockOf(s) \in tryBlocksAt(i) \ failed
                    THEN push(series[s],
                              [at |-> i, from |-> readFrom(s, i),
                               val |-> pushed(s, audio, i, spectrumLength)])
                    ELSE series[s]]
          /\ frames' = Append(frames, [at |-> i, failed |-> failed, aborted |-> FALSE])
          /\ failures' = failures + Cardinality(failed)
          /\ i' = i + hopSize
          /\ UNCHANGED <<pc, err>>
  /\ UNCHANGED <<file, spectrumLength, audio, dcAttempts, scores, stdout, stderr,
                 exitCode, arg, ret>>

\* Lines 173-177, once the loop condition is false.
DynamicComplexity ==
  /\ pc = "loop"
  /\ ~loopCondition(i, audio.length)
  /\ dcAttempts' = dcAttempts + 1
  /\ \/ /\ series' = [series EXCEPT !["dynamicComplexities"] =
                        push(@, [at |-> 0, from |-> <<>>,
                                 val |-> essentiaDynamicComplexity(audio.content)])]
        /\ failures' = failures
     \/ \* arrayToVector or DynamicComplexity throws
        /\ failures < MaxFailures
        /\ series' = series
        /\ failures' = failures + 1
  /\ pc' = "stats"
  /\ UNCHANGED <<file, spectrumLength, audio, i, frames, scores, stdout,
                 stderr, err, exitCode, arg, ret>>

\* Lines 179-301: statistics, scores and the five output lines.  The process
\* then ends with status 0 unless a createBar call threw.
Report ==
  /\ pc = "stats"
  /\ scores' = computeScores(series)
  /\ stdout' = printed(scores')
  /\ IF Len(stdout') = Len(scores')
       THEN pc' = "done" /\ exitCode' = 0 /\ err' = err
       ELSE pc' = "rejected" /\ exitCode' = exitCode /\ err' = "RangeError"
  /\ UNCHANGED <<file, spectrumLength, audio, i, frames, series, failures,
                 dcAttempts, stderr, arg, ret>>

\* Lines 306-309: the rejection handler.
Catch ==
  /\ pc = "rejected"
  /\ stderr' = Append(stderr, <<"Error:", err>>)
  /\ exitCode' = 1
  /\ pc' = "exited"
  /\ UNCHANGED <<file, spectrumLength, audio, i, frames, series, failures,
                 dcAttempts, scores, stdout, err, arg, ret>>

Next == loadWav \/ Frame \/ DynamicComplexity \/ Report \/ Catch

Spec == Init /\ [][Next]_vars

\* ------------------------------------------------------------ calculateStats on its own
MainIdle ==
  /\ file = [kind |-> "missing", length |-> 0, content |-> <<>>, sampleRate |-> 0]
  /\ spectrumLength = 0
  /\ pc = Idle
  /\ audio = NoAudio
  /\ i = 0
  /\ frames = <<>>
  /\ series = EmptySeries
  /\ failures = 0
  /\ dcAttempts = 0
  /\ scores = NoScores
  /\ stdout = <<>>
  /\ stderr = <<>>
  /\ err = "none"
  /\ exitCode = "running"

mainVars == <<file, spectrumLength, pc, audio, i, frames, series, failures,
              dcAttempts, scores, stdout, stderr, err, exitCode>>

StatArrays == UNION {[1 .. n -> {Num(v) : v \in 0 .. MaxStatVal}] : n \in 0 .. MaxStatLen}

InitStats == MainIdle /\ arg \in StatArrays /\ ret = <<>>

CallCalculateStats ==
  /\ ret = <<>>
  /\ ret' = <<calculateStats(arg)>>
  /\ UNCHANGED <<mainVars, arg>>

SpecStats == InitStats /\ [][CallCalculateStats]_vars

\* ------------------------------------------------------------ createBar on its own
BarScores == {Rat(t, 10) : t \in -MaxBarTenths .. 1000 + MaxBarTenths}

InitBar == MainIdle /\ arg \in BarScores /\ ret = <<>>

CallCreateBar ==
  /\ ret = <<>>
  /\ ret' = <<createBar(arg)>>
  /\ UNCHANGED <<mainVars, arg>>

SpecBar == InitBar /\ [][CallCreateBar]_vars

\* ------------------------------------------------------------ properties
Offsets == [k \in 1 .. Len(frames) |-> frames[k].at]

LoopDone == pc \in {"stats", "done"}

\* The offsets 0, hopSize, 2 * hopSize, ... that are <= length - frameSize.
OffsetsUpTo(length) ==
  [k \in 1 .. Cardinality({j \in 0 .. length \div hopSize : j * hopSize <= length - frameSize})
     |-> (k - 1) * hopSize]

\* C1: once the frame loop has ended, the offsets it visited are exactly
\* 0, H, 2H, ... <= L - F, in increasing order (L = F gives the offset 0).
C1_VisitsEveryWholeFrame == LoopDone => Offsets = OffsetsUpTo(audio.length)

\* C2: no failure inside the frame loop aborts the loop or the run: every
\* visited frame runs all its try blocks, a feature that did not fail has
\* its value for that frame, and a loaded run is never rejected.
C2_FaultIsolation ==
  /\ audio.loaded => pc \notin {"rejected", "exited"}
  /\ \A k \in 1 .. Len(frames) :
       /\ ~frames[k].aborted
       /\ \A s \in PerFrameSeries :
            (BlockOf(s) \notin frames[k].failed /\ (s = "spectralFluxes" => frames[k].at > 0))
              => \E e \in 1 .. Len(series[s]) : series[s][e].at = frames[k].at

InRange(x) == IsNumber(x) /\ x.n >= 0

AllInRange ==
  /\ \A s \in SeriesNames : \A k \in 1 .. Len(series[s]) : InRange(series[s][k].val)
  /\ \A k \in 1 .. Len(series["frameSilences"]) :
       series["frameSilences"][k].val \in {Num(0), Num(1)}

\* C3: with every series value in range, each of the five scores computed
\* lies in [0, 100], whichever series are empty.
C3_ScoresInRange ==
  (Len(scores) = 5 /\ AllInRange)
    => \A k \in 1 .. 5 : IsNumber(scores[k]) /\ scores[k].n >= 0 /\ scores[k].n <= 100 * scores[k].d

C3_Witness ==
  /\ Len(scores) = 5
  /\ AllInRange
  /\ series["dynamicComplexities"] = <<>>
  /\ series["spectralFluxes"] = <<>>
  /\ series["hfcValues"] # <<>>
  /\ series["lowFreqEnergies"] # <<>>
  /\ Less(Num(50), scores[1])

Clamp(x, lo, hi) == IF x < lo THEN lo ELSE IF x > hi THEN hi ELSE x

\* C4: for every score, createBar returns without an error a string of 20
\* characters: filled '#' then 20 - filled '-', filled = round(score / 5)
\* clamped into [0, 20].
C4_BarAlwaysTwentyChars ==
  Len(ret) = 1 =>
    LET filled == Clamp((2 * arg.n + 5 * arg.d) \div (10 * arg.d), 0, 20)
    IN /\ ~ret[1].threw
       /\ Len(ret[1].value) = 20
       /\ \A k \in 1 .. Len(ret[1].value) :
            ret[1].value[k] = IF k <= filled THEN "#" ELSE "-"

RECURSIVE IntSum(_, _)
IntSum(arr, k) == IF k = 0 THEN 0 ELSE arr[k].n + IntSum(arr, k - 1)

\* C5: calculateStats returns 0 and 0 for the empty series; otherwise the
\* arithmetic mean, which lies between the least and the greatest entry, and
\* as percentile90 the entry of rank min(floor(0.9 N), N - 1) in ascending
\* order, always an entry of the series.
C5_StatsAgreeWithReference ==
  Len(ret) = 1 =>
    LET N == Len(arg)
        mean == ret[1].mean
        p == ret[1].percentile90
        rank == IF (9 * N) \div 10 < N - 1 THEN (9 * N) \div 10 ELSE N - 1
    IN IF N = 0
         THEN mean = Num(0) /\ p = Num(0)
         ELSE /\ IsNumber(mean)
              /\ mean.n * N = IntSum(arg, N) * mean.d
              /\ \E k \in 1 .. N : arg[k].n * mean.d <= mean.n
              /\ \E k \in 1 .. N : arg[k].n * mean.d >= mean.n
              /\ \E k \in 1 .. N : arg[k] = p
              /\ Cardinality({k \in 1 .. N : arg[k].n < p.n}) <= rank
              /\ Cardinality({k \in 1 .. N : arg[k].n <= p.n}) >= rank + 1

C5_Witness ==
  /\ Len(ret) = 1
  /\ Len(arg) = 11
  /\ arg[1] = Num(1)
  /\ arg[2] = Num(0)
  /\ arg[11] = Num(1)
  /\ Cardinality({k \in 1 .. 11 : arg[k] = Num(1)}) = 2
  /\ ret[1].percentile90 = Num(1)
  /\ ret[1].mean = Rat(2, 11)

\* C6: a failed load prints one error message and no score line, never
\* enters the frame loop and exits with a non-zero status; a successful load
\* ends with the five score lines and no non-zero status.
C6_ExitBehaviour ==
  pc \in {"done", "exited"} =>
    IF file.kind = "wav"
      THEN Len(stdout) = 5 /\ stderr = <<>> /\ exitCode = 0
      ELSE Len(stderr) = 1 /\ stdout = <<>> /\ frames = <<>> /\ exitCode = 1

\* C7: a frame whose spectrum has an empty low slice [0, split) or an empty
\* high slice [split, end) appends nothing to the band-energy series, and
\* these series hold numbers only.
C7_NoValueFromEmptyBand ==
  \A s \in {"lowFreqEnergies", "highFreqEnergies"} :
    \A k \in 1 .. Len(series[s]) :
      /\ IsNumber(series[s][k].val)
      /\ spectrumLength \div 10 > 0
      /\ spectrumLength \div 10 < spectrumLength

\* C8: once a frame was visited the flux series is shorter than the number
\* of frames visited: offset 0 appends no flux, a later offset i at most
\* one, computed from the frames at i - H and at i.
C8_FluxBound ==
  LET flux == series["spectralFluxes"]
  IN /\ frames # <<>> => Len(flux) <= Len(frames) - 1
     /\ \A k \in 1 .. Len(flux) :
          /\ flux[k].at > 0
          /\ \E f \in 1 .. Len(frames) : frames[f].at = flux[k].at
          /\ flux[k].from = <<flux[k].at - hopSize, flux[k].at>>
          /\ flux[k].val =
               essentiaFlux(file.content[flux[k].from[1] \div hopSize + 1],
                            file.content[flux[k].from[2] \div hopSize + 1])
          /\ \A j \in 1 .. Len(flux) : j # k => flux[j].at # flux[k].at

C8_Witness ==
  /\ LoopDone
  /\ Len(frames) = 2
  /\ Len(series["spectralFluxes"]) = 1
  /\ series["spectralFluxes"][1].val = Rat(3, 50)

\* C9: DynamicComplexity is called at most once, over the whole buffer and
\* only when the frame loop has visited its last offset, exactly once in a
\* run that gets to the scores; its series has 0 or 1 entries, and
\* aggressiveness takes 50 for it when empty and min(100, 10 * value)
\* otherwise, weighted 0.1.
C9_DynamicComplexityOnce ==
  LET dc == series["dynamicComplexities"]
      silent == [series EXCEPT !["dynamicComplexities"] = <<[at |-> 0, from |-> <<>>, val |-> Num(0)]>>]
      expected == IF Len(dc) = 0 THEN Num(50)
                  ELSE IF dc[1].val.n * 10 > 100 * dc[1].val.d THEN Num(100)
                  ELSE Rat(dc[1].val.n * 10, dc[1].val.d)
  IN /\ Len(dc) <= dcAttempts
     /\ dcAttempts <= 1
     /\ dcAttempts = 1 =>
          /\ audio.loaded
          /\ i >= audio.length - frameSize
          /\ \A k \in 1 .. Len(frames) : ~frames[k].aborted
          /\ Len(frames) =
               Cardinality({j \in 0 .. audio.length \div hopSize :
                              j * hopSize < audio.length - frameSize})
     /\ (pc = "stats" \/ Len(scores) = 5) => dcAttempts = 1
     /\ \A k \in 1 .. Len(dc) : dc[k].val = essentiaDynamicComplexity(file.content)
     /\ Len(scores) = 5 =>
          Sub(scores[1], computeScores(silent)[1]) = Mul(expected, Rat(1, 10))

C9_Witness ==
  /\ pc = "done"
  /\ Len(frames) = 2
  /\ series["dynamicComplexities"] = <<>>
  /\ dcAttempts = 1

IsPrefix(a, b) == Len(a) <= Len(b) /\ \A k \in 1 .. Len(a) : a[k] = b[k]

SeriesInFrameOrder ==
  \A s \in PerFrameSeries :
    /\ Len(series[s]) <= Len(frames)
    /\ \A k \in 1 .. Len(series[s]) :
         /\ \E f \in 1 .. Len(frames) : frames[f].at = series[s][k].at
         /\ k > 1 => series[s][k - 1].at < series[s][k].at

SeriesAppendOnly ==
  \A s \in PerFrameSeries :
    /\ IsPrefix(series[s], series'[s])
    /\ Len(series'[s]) <= Len(series[s]) + 1
    /\ Len(frames') = Len(frames) => series'[s] = series[s]
    /\ (pc # "loop" \/ i >= audio.length - frameSize) => series'[s] = series[s]

\* C10: every per-frame series only grows by appending, by at most one entry
\* per frame visited, holds its entries in increasing frame-offset order
\* (failed frames left out), and no longer changes once the loop is over.
C10_SeriesAppendOnly == []SeriesInFrameOrder /\ [][SeriesAppendOnly]_vars

C10_Witness ==
  /\ LoopDone
  /\ Len(frames) = 2
  /\ Len(series["loudnesses"]) = 1
  /\ series["loudnesses"][1].at = hopSize
  /\ Len(series["hfcValues"]) = 2

====
